---------------------------- MODULE Spec2Model ----------------------------
(***************************************************************************)
(* A model of src/src/App.jsx, the lead-review dashboard "Leads Atlas".    *)
(*                                                                         *)
(* JavaScript strings are tuples of one-character strings, so that trim,   *)
(* toLowerCase, includes, replace, split and join are computed character    *)
(* by character.  A JavaScript object is a TLA+ record; an absent (or      *)
(* null) property is a field that is not in the record's DOMAIN.           *)
(***************************************************************************)
EXTENDS Integers, Sequences, FiniteSets, TLC

VARIABLES
    leads,              \* the dataset imported at line 2 (never assigned)
    query,              \* useState('')    line 130
    minDecisionMakers,  \* useState('0')   line 131
    hasHeadOfData,      \* useState(false) line 132
    expandedLeads,      \* useState({})    line 133
    memoDeps,           \* dependency array useMemo saw at its last run
    filteredLeads,      \* the value useMemo returned at the last render
    download,           \* what downloadCsv last handed to the browser
    copiedEmail,        \* useState('')    line 134
    pendingWrites,      \* the emails of the calls of onCopyEmail waiting at the await of line 182
    timers,             \* the callbacks of line 195 not yet run, oldest first,
                        \* each with the email of the call that scheduled it
    ret                 \* the last call of a pure helper: function, argument, result

vars == <<leads, query, minDecisionMakers, hasHeadOfData, expandedLeads,
          memoDeps, filteredLeads, download, copiedEmail, pendingWrites, timers, ret>>

-----------------------------------------------------------------------------
(* Bounds of the model.                                                    *)

MaxLeads == 2
MaxDecisionMakers == 2
MaxLen == 3
\* Calls of onCopyEmail that are waiting for the clipboard or for their timer.
MaxCopies == 3

-----------------------------------------------------------------------------
(* JavaScript values and strings.                                          *)

JsUndefined == [type |-> "undefined"]
JsNull == [type |-> "null"]
JsString(chars) == [type |-> "string", value |-> chars]

\* obj.key, as a JavaScript value.
Prop(obj, key) == IF key \in DOMAIN obj THEN JsString(obj[key]) ELSE JsUndefined

\* value ?? '' and value || '' on a string-or-absent property.
OrEmpty(v) == IF v.type = "string" THEN v.value ELSE <<>>

\* `${value}` inside a template literal.
TemplateText(v) ==
    CASE v.type = "string" -> v.value
      [] v.type = "null" -> <<"n", "u", "l", "l">>
      [] OTHER -> <<"u", "n", "d", "e", "f", "i", "n", "e", "d">>

UpperCase == <<"A", "B", "C", "D", "E", "F", "G", "H", "I", "J", "K", "L", "M",
               "N", "O", "P", "Q", "R", "S", "T", "U", "V", "W", "X", "Y", "Z">>
LowerCase == <<"a", "b", "c", "d", "e", "f", "g", "h", "i", "j", "k", "l", "m",
               "n", "o", "p", "q", "r", "s", "t", "u", "v", "w", "x", "y", "z">>

UpperSet == {UpperCase[i] : i \in DOMAIN UpperCase}

lowerTable == [c \in UpperSet |-> LowerCase[CHOOSE i \in DOMAIN UpperCase : UpperCase[i] = c]]

LowerChar(c) == IF c \in UpperSet THEN lowerTable[c] ELSE c

RECURSIVE toLowerCase(_)
\* String.prototype.toLowerCase
toLowerCase(s) ==
    IF s = <<>> THEN <<>> ELSE <<LowerChar(Head(s))>> \o toLowerCase(Tail(s))

WhiteSpace == {" ", "\n", "\t", "\r"}

\* String.prototype.trim
trim(s) ==
    LET inked == {i \in DOMAIN s : s[i] \notin WhiteSpace}
    IN  IF inked = {} THEN <<>>
        ELSE SubSeq(s, CHOOSE i \in inked : \A j \in inked : i <= j,
                       CHOOSE i \in inked : \A j \in inked : j <= i)

\* String.prototype.includes
includes(hay, needle) ==
    \E k \in 0..(Len(hay) - Len(needle)) :
        \A i \in DOMAIN needle : hay[k + i] = needle[i]

RECURSIVE join(_, _)
\* Array.prototype.join on an array of strings.
join(parts, sep) ==
    IF parts = <<>> THEN <<>>
    ELSE IF Len(parts) = 1 THEN Head(parts)
    ELSE Head(parts) \o sep \o join(Tail(parts), sep)

\* array.map(String-or-absent property).join(sep): join prints undefined as ''.
joinProps(objs, key, sep) ==
    join([i \in DOMAIN objs |-> OrEmpty(Prop(objs[i], key))], sep)

RECURSIVE split(_, _)
\* String.prototype.split on a one-character separator.
split(s, sep) ==
    IF \A i \in DOMAIN s : s[i] # sep THEN <<s>>
    ELSE LET k == CHOOSE i \in DOMAIN s : s[i] = sep /\ \A j \in 1..(i - 1) : s[j] # sep
         IN  <<SubSeq(s, 1, k - 1)>> \o split(SubSeq(s, k + 1, Len(s)), sep)

RECURSIVE doubleQuotes(_)
\* stringValue.replace(/"/g, '""')
doubleQuotes(s) ==
    IF s = <<>> THEN <<>>
    ELSE (IF Head(s) = "\"" THEN <<"\"", "\"">> ELSE <<Head(s)>>) \o doubleQuotes(Tail(s))

-----------------------------------------------------------------------------
(* escapeCsv, lines 4-11.                                                  *)

\* A mutant of needsQuoting: the newline is left out of the character class.
needsQuotingNoNewline(s) == \E i \in DOMAIN s : s[i] \in {"\"", ","}

\* /[",\n]/.test(stringValue)
needsQuoting(s) == \E i \in DOMAIN s : s[i] \in {"\"", ",", "\n"}

escapeCsv(value) ==
    IF value.type \in {"null", "undefined"} THEN <<>>
    ELSE IF needsQuoting(value.value)
         THEN <<"\"">> \o doubleQuotes(value.value) \o <<"\"">>
         ELSE value.value

-----------------------------------------------------------------------------
(* isValidEmail, lines 13-14.                                              *)

\* A mutant of isValidEmail: every string counts as an email.
isValidEmailAnyString(email) == email.type = "string"

isValidEmail(email) == email.type = "string" /\ includes(email.value, <<"@">>)

-----------------------------------------------------------------------------
(* getDisplayDecisionMakers, lines 26-37.                                  *)

\* `${dm.name}-${dm.role}-${dm.linkedin_url || ''}`, line 32
dedupKey(dm) ==
    TemplateText(Prop(dm, "name")) \o <<"-">> \o TemplateText(Prop(dm, "role"))
        \o <<"-">> \o OrEmpty(Prop(dm, "linkedin_url"))

\* [...decisionMakers, ...headOfData], lines 27-29
combinedContacts(lead) ==
    (IF "decision_makers" \in DOMAIN lead THEN lead.decision_makers ELSE <<>>)
        \o (IF "head_of_data" \in DOMAIN lead THEN <<lead.head_of_data>> ELSE <<>>)

RECURSIVE filterUnseen(_, _)
\* combined.filter(...) with the Set `seen`, lines 30-36
filterUnseen(combined, seen) ==
    IF combined = <<>> THEN <<>>
    ELSE LET key == dedupKey(Head(combined))
         IN  IF key \in seen
             THEN filterUnseen(Tail(combined), seen)
             ELSE <<Head(combined)>> \o filterUnseen(Tail(combined), seen \cup {key})

\* A mutant of getDisplayDecisionMakers: the filter on `seen` is forgotten.
getDisplayDecisionMakersUnfiltered(lead) == combinedContacts(lead)

getDisplayDecisionMakers(lead) == filterUnseen(combinedContacts(lead), {})

-----------------------------------------------------------------------------
(* buildCsv, lines 39-87.                                                  *)

Pipe == <<" ", "|", " ">>

\* The headers array, lines 40-51.
headers ==
    << <<"c","o","m","p","a","n","y">>,
       <<"u","r","l">>,
       <<"d","e","c","i","s","i","o","n","_","m","a","k","e","r","s">>,
       <<"d","e","c","i","s","i","o","n","_","m","a","k","e","r","_","r","o","l","e","s">>,
       <<"d","e","c","i","s","i","o","n","_","m","a","k","e","r","_","l","i","n","k","e","d","i","n","s">>,
       <<"d","e","c","i","s","i","o","n","_","m","a","k","e","r","_","e","m","a","i","l","s">>,
       <<"h","e","a","d","_","o","f","_","d","a","t","a","_","n","a","m","e">>,
       <<"h","e","a","d","_","o","f","_","d","a","t","a","_","r","o","l","e">>,
       <<"h","e","a","d","_","o","f","_","d","a","t","a","_","l","i","n","k","e","d","i","n">>,
       <<"h","e","a","d","_","o","f","_","d","a","t","a","_","e","m","a","i","l">> >>

\* isValidEmail(dm.email) ? dm.email : '' , lines 63 and 110
validEmailOrEmpty(dm) ==
    IF isValidEmail(Prop(dm, "email")) THEN dm.email ELSE <<>>

\* decisionMakers.map(...).filter(Boolean), lines 62-64 (before the join)
decisionMakerEmails(decisionMakers) ==
    SelectSeq([i \in DOMAIN decisionMakers |-> validEmailOrEmpty(decisionMakers[i])],
              LAMBDA e : e # <<>>)

\* isValidEmail(headOfData?.email) ? headOfData.email : '' , lines 66-68 and 114
headOfDataEmail(lead) ==
    IF "head_of_data" \in DOMAIN lead THEN validEmailOrEmpty(lead.head_of_data) ELSE <<>>

\* headOfData?.key ?? '' , lines 77-79 and 112-113
headOfDataProp(lead, key) ==
    IF "head_of_data" \in DOMAIN lead THEN OrEmpty(Prop(lead.head_of_data, key)) ELSE <<>>

\* The array of one lead's ten values, lines 70-81 (before .map(escapeCsv)).
csvFields(lead) ==
    LET decisionMakers == getDisplayDecisionMakers(lead)
    IN  << Prop(lead, "company"),
           Prop(lead, "url"),
           JsString(joinProps(decisionMakers, "name", Pipe)),
           JsString(joinProps(decisionMakers, "role", Pipe)),
           JsString(joinProps(decisionMakers, "linkedin_url", Pipe)),
           JsString(join(decisionMakerEmails(decisionMakers), Pipe)),
           JsString(headOfDataProp(lead, "name")),
           JsString(headOfDataProp(lead, "role")),
           JsString(headOfDataProp(lead, "linkedin_url")),
           JsString(headOfDataEmail(lead)) >>

\* One element of `body`: the lead's values .map(escapeCsv).join(','), lines 82-83
csvRow(lead) ==
    LET fields == csvFields(lead)
    IN  join([i \in DOMAIN fields |-> escapeCsv(fields[i])], <<",">>)

\* A mutant of buildCsv: the header row is left out.
buildCsvNoHeader(rows) == join([i \in DOMAIN rows |-> csvRow(rows[i])], <<"\n">>)

buildCsv(rows) ==
    join(<<join(headers, <<",">>)>> \o [i \in DOMAIN rows |-> csvRow(rows[i])], <<"\n">>)

-----------------------------------------------------------------------------
(* getSearchHaystack, lines 100-118.                                       *)

Space == <<" ">>

\* decisionMakers.map(valid email or ''), lines 109-110 (before the join)
haystackEmails(decisionMakers) ==
    [i \in DOMAIN decisionMakers |-> validEmailOrEmpty(decisionMakers[i])]

\* The array of eight parts, lines 104-115 (before the join).
haystackParts(lead) ==
    LET decisionMakers == getDisplayDecisionMakers(lead)
    IN  << OrEmpty(Prop(lead, "company")),
           OrEmpty(Prop(lead, "url")),
           joinProps(decisionMakers, "name", Space),
           joinProps(decisionMakers, "role", Space),
           join(haystackEmails(decisionMakers), Space),
           headOfDataProp(lead, "name"),
           headOfDataProp(lead, "role"),
           headOfDataEmail(lead) >>

\* A mutant of getSearchHaystack: the final toLowerCase is forgotten.
getSearchHaystackAsTyped(lead) == join(haystackParts(lead), Space)

getSearchHaystack(lead) == toLowerCase(join(haystackParts(lead), Space))

-----------------------------------------------------------------------------
(* The filteredLeads memo of App, lines 144-159.                           *)

Digits == <<"0", "1", "2", "3", "4", "5", "6", "7", "8", "9">>

digitValue(c) == (CHOOSE i \in DOMAIN Digits : Digits[i] = c) - 1

RECURSIVE decimalValue(_)
decimalValue(s) ==
    IF s = <<>> THEN 0
    ELSE 10 * decimalValue(SubSeq(s, 1, Len(s) - 1)) + digitValue(s[Len(s)])

\* Number(text) || 0 on a string of the select: NaN and 0 both give 0, line 145
numberOrZero(text) ==
    LET t == trim(text)
    IN  IF \A i \in DOMAIN t : \E d \in DOMAIN Digits : Digits[d] = t[i]
        THEN decimalValue(t)
        ELSE 0

\* !normalizedQuery || getSearchHaystack(lead).includes(normalizedQuery), lines 149-150
matchesQuery(lead, normalizedQuery) ==
    normalizedQuery = <<>> \/ includes(getSearchHaystack(lead), normalizedQuery)

\* A mutant of matchesDecisionMakers: the deduplicated display list is counted.
matchesDecisionMakersDisplayed(lead, minCount) ==
    Len(getDisplayDecisionMakers(lead)) >= minCount

\* A mutant of matchesDecisionMakers: the comparison is turned around.
matchesDecisionMakersAtMost(lead, minCount) ==
    (IF "decision_makers" \in DOMAIN lead THEN Len(lead.decision_makers) ELSE 0) <= minCount

\* (lead.decision_makers?.length ?? 0) >= minCount, lines 151-152
matchesDecisionMakers(lead, minCount) ==
    (IF "decision_makers" \in DOMAIN lead THEN Len(lead.decision_makers) ELSE 0) >= minCount

\* !hasHeadOfData || Boolean(lead.head_of_data), line 153
matchesHeadOfData(lead, flag) == ~flag \/ "head_of_data" \in DOMAIN lead

\* The place of a character in an ascending comparison of company names:
\* letters in alphabetical order whatever their case, other characters first.
charRank(c) ==
    IF \E i \in DOMAIN LowerCase : LowerCase[i] = LowerChar(c)
    THEN CHOOSE i \in DOMAIN LowerCase : LowerCase[i] = LowerChar(c)
    ELSE 0

RECURSIVE textBefore(_, _)
\* a sorts strictly before b.
textBefore(a, b) ==
    IF b = <<>> THEN FALSE
    ELSE IF a = <<>> THEN TRUE
    ELSE IF charRank(Head(a)) # charRank(Head(b)) THEN charRank(Head(a)) < charRank(Head(b))
    ELSE textBefore(Tail(a), Tail(b))

RECURSIVE insertByCompany(_, _)
insertByCompany(sorted, lead) ==
    IF sorted = <<>> THEN <<lead>>
    ELSE IF textBefore(OrEmpty(Prop(lead, "company")), OrEmpty(Prop(Head(sorted), "company")))
         THEN <<lead>> \o sorted
         ELSE <<Head(sorted)>> \o insertByCompany(Tail(sorted), lead)

RECURSIVE sortByCompany(_)
\* A stable ascending sort on company.
sortByCompany(rows) ==
    IF rows = <<>> THEN <<>>
    ELSE insertByCompany(sortByCompany(SubSeq(rows, 1, Len(rows) - 1)), rows[Len(rows)])

\* A mutant of computeFilteredLeads: the kept leads are sorted by company.
computeFilteredLeadsSorted(rows, q, m, h) ==
    sortByCompany(SelectSeq(rows, LAMBDA lead :
        /\ matchesQuery(lead, toLowerCase(trim(q)))
        /\ matchesDecisionMakers(lead, numberOrZero(m))
        /\ matchesHeadOfData(lead, h)))

\* The callback given to useMemo, lines 144-158, on the dataset `rows`.
computeFilteredLeads(rows, q, m, h) ==
    LET minCount == numberOrZero(m)
        normalizedQuery == toLowerCase(trim(q))
    IN  SelectSeq(rows, LAMBDA lead :
            /\ matchesQuery(lead, normalizedQuery)
            /\ matchesDecisionMakers(lead, minCount)
            /\ matchesHeadOfData(lead, h))

\* A mutant of memoDependencies: hasHeadOfData is left out of the array.
memoDependenciesWithoutFlag(q, m, h) == <<q, m>>

\* The dependency array [query, minDecisionMakers, hasHeadOfData], line 159
memoDependencies(q, m, h) == <<q, m, h>>

\* One render of App with the state (q, m, h): useMemo runs its callback when a
\* dependency differs from the last render's, and returns the kept value otherwise.
Render(q, m, h) ==
    /\ memoDeps' = memoDependencies(q, m, h)
    /\ filteredLeads' =
           IF memoDependencies(q, m, h) = memoDeps
           THEN filteredLeads
           ELSE computeFilteredLeads(leads, q, m, h)

-----------------------------------------------------------------------------
(* The event handlers of App.  Each sets state and React renders again.    *)

\* The state that onCopyEmail and its timers work on.
copyVars == <<copiedEmail, pendingWrites, timers>>

NoCall == [fn |-> "none"]
NoDownload == [label |-> "none"]

RECURSIVE decimalText(_)
\* `${index}` for an array index
decimalText(n) ==
    IF n < 10 THEN <<Digits[n + 1]>>
    ELSE decimalText(n \div 10) \o <<Digits[(n % 10) + 1]>>

\* `${lead.company}-${index}`, line 318 (index counts from 0)
leadKey(lead, index) ==
    TemplateText(Prop(lead, "company")) \o <<"-">> \o decimalText(index)

\* The keys of the rendered cards that show the expand button, lines 318-320, 412
expandableKeys ==
    {leadKey(filteredLeads[i], i - 1) : i \in
        {j \in DOMAIN filteredLeads : Len(getDisplayDecisionMakers(filteredLeads[j])) > 3}}

\* onChange of the search input, line 253
OnChangeQuery(text) ==
    /\ query' = text
    /\ Render(text, minDecisionMakers, hasHeadOfData)
    /\ UNCHANGED <<leads, minDecisionMakers, hasHeadOfData, expandedLeads, download, copyVars, ret>>

\* The option values of the select, lines 265-269
selectOptions == {<<"0">>, <<"1">>, <<"2">>, <<"3">>, <<"4">>}

\* onChange of the select, line 263
OnChangeMinDecisionMakers(option) ==
    /\ minDecisionMakers' = option
    /\ Render(query, option, hasHeadOfData)
    /\ UNCHANGED <<leads, query, hasHeadOfData, expandedLeads, download, copyVars, ret>>

\* onClick of the head-of-data button, line 282
OnToggleHeadOfData ==
    /\ hasHeadOfData' = ~hasHeadOfData
    /\ Render(query, minDecisionMakers, ~hasHeadOfData)
    /\ UNCHANGED <<leads, query, minDecisionMakers, expandedLeads, download, copyVars, ret>>

\* onClick of a card's "Show all" button, lines 415-420
OnToggleExpanded(key) ==
    /\ key \in expandableKeys
    /\ expandedLeads' =
           [k \in DOMAIN expandedLeads \cup {key} |->
               IF k = key
               THEN ~(key \in DOMAIN expandedLeads /\ expandedLeads[key])
               ELSE expandedLeads[k]]
    /\ Render(query, minDecisionMakers, hasHeadOfData)
    /\ UNCHANGED <<leads, query, minDecisionMakers, hasHeadOfData, download, copyVars, ret>>

\* onReset, lines 171-176
OnReset ==
    /\ query' = <<>>
    /\ minDecisionMakers' = <<"0">>
    /\ hasHeadOfData' = FALSE
    /\ expandedLeads' = <<>>
    /\ Render(<<>>, <<"0">>, FALSE)
    /\ UNCHANGED <<leads, download, copyVars, ret>>

\* onExportFiltered, lines 161-164, with downloadCsv, lines 89-98.  The date
\* stamp of the file name is the browser's clock and is left out of the label.
OnExportFiltered ==
    /\ download' = [label |-> "leads-filtered", csv |-> buildCsv(filteredLeads)]
    /\ UNCHANGED <<leads, query, minDecisionMakers, hasHeadOfData, expandedLeads,
                   memoDeps, filteredLeads, copyVars, ret>>

\* onExportAll, lines 166-169
OnExportAll ==
    /\ download' = [label |-> "leads-all", csv |-> buildCsv(leads)]
    /\ UNCHANGED <<leads, query, minDecisionMakers, hasHeadOfData, expandedLeads,
                   memoDeps, filteredLeads, copyVars, ret>>

\* expandedLeads[leadKey], line 321
isExpanded(key) == key \in DOMAIN expandedLeads /\ expandedLeads[key]

\* visibleDecisionMakers of the card at `index` (from 0), lines 319-324
visibleDecisionMakers(lead, index) ==
    LET decisionMakers == getDisplayDecisionMakers(lead)
    IN  IF isExpanded(leadKey(lead, index))
        THEN decisionMakers
        ELSE SubSeq(decisionMakers, 1, IF Len(decisionMakers) < 3 THEN Len(decisionMakers) ELSE 3)

\* The emails behind the rendered "Copy" buttons, lines 387 and 401.  The
\* button of the modal (line 478) copies the email of a contact whose "View"
\* button stands next to one of these (lines 387-395).
copyButtons ==
    UNION {{visibleDecisionMakers(filteredLeads[i], i - 1)[k].email :
               k \in {j \in DOMAIN visibleDecisionMakers(filteredLeads[i], i - 1) :
                          isValidEmail(Prop(visibleDecisionMakers(filteredLeads[i], i - 1)[j], "email"))}} :
           i \in DOMAIN filteredLeads}

\* array.filter((_, index) => index !== i)
without(seq, i) == SubSeq(seq, 1, i - 1) \o SubSeq(seq, i + 1, Len(seq))

\* The calls of onCopyEmail that have neither failed nor seen their timer run.
copiesInFlight == Len(pendingWrites) + Len(timers)

\* onCopyEmail where navigator.clipboard.writeText exists, lines 178-182: the
\* call stops at the await until the promise of writeText settles.
OnCopyEmailWriteText(email) ==
    /\ email # <<>>
    /\ copiesInFlight < MaxCopies
    /\ pendingWrites' = Append(pendingWrites, email)
    /\ UNCHANGED <<leads, query, minDecisionMakers, hasHeadOfData, expandedLeads,
                   memoDeps, filteredLeads, download, copiedEmail, timers, ret>>

\* The promise of the i-th waiting call resolves, lines 194-195: the call sets
\* copiedEmail and schedules the callback that clears it.
WriteTextResolved(i) ==
    /\ i \in DOMAIN pendingWrites
    /\ copiedEmail' = pendingWrites[i]
    /\ timers' = Append(timers, pendingWrites[i])
    /\ pendingWrites' = without(pendingWrites, i)
    /\ UNCHANGED <<leads, query, minDecisionMakers, hasHeadOfData, expandedLeads,
                   memoDeps, filteredLeads, download, ret>>

\* The promise of the i-th waiting call rejects, lines 196-198: the error is
\* logged and nothing is set.
WriteTextRejected(i) ==
    /\ i \in DOMAIN pendingWrites
    /\ pendingWrites' = without(pendingWrites, i)
    /\ UNCHANGED <<leads, query, minDecisionMakers, hasHeadOfData, expandedLeads,
                   memoDeps, filteredLeads, download, copiedEmail, timers, ret>>

\* onCopyEmail where navigator.clipboard is missing, lines 178-199: the
\* textarea fallback runs in one turn; when it throws, the catch of line 196
\* leaves the state alone.
OnCopyEmailExecCommand(email, thrown) ==
    /\ email # <<>>
    /\ copiesInFlight < MaxCopies
    /\ IF thrown
       THEN UNCHANGED <<copiedEmail, timers>>
       ELSE /\ copiedEmail' = email
            /\ timers' = Append(timers, email)
    /\ UNCHANGED <<leads, query, minDecisionMakers, hasHeadOfData, expandedLeads,
                   memoDeps, filteredLeads, download, pendingWrites, ret>>

\* The callback () => setCopiedEmail('') of line 195 runs.  Every timer has
\* the same delay of 1600 ms, so the callbacks run in the order they were
\* scheduled; no call of clearTimeout takes one away.
TimerFires ==
    /\ timers # <<>>
    /\ copiedEmail' = <<>>
    /\ timers' = Tail(timers)
    /\ UNCHANGED <<leads, query, minDecisionMakers, hasHeadOfData, expandedLeads,
                   memoDeps, filteredLeads, download, pendingWrites, ret>>

\* The state of App after its first render on the dataset `rows`.
Mounted(rows) ==
    /\ leads = rows
    /\ query = <<>>
    /\ minDecisionMakers = <<"0">>
    /\ hasHeadOfData = FALSE
    /\ expandedLeads = <<>>
    /\ memoDeps = memoDependencies(<<>>, <<"0">>, FALSE)
    /\ filteredLeads = computeFilteredLeads(rows, <<>>, <<"0">>, FALSE)
    /\ download = NoDownload
    /\ copiedEmail = <<>>
    /\ pendingWrites = <<>>
    /\ timers = <<>>
    /\ ret = NoCall

appVars == <<leads, query, minDecisionMakers, hasHeadOfData, expandedLeads,
             memoDeps, filteredLeads, download, copyVars>>

\* All sequences of at most n elements of S.
SeqUpTo(S, n) == UNION {[1..k -> S] : k \in 0..n}

\* The datasets of at most n leads of S, no lead listed twice.
Datasets(S, n) == {rows \in SeqUpTo(S, n) : \A i, j \in DOMAIN rows : i # j => rows[i] # rows[j]}

-----------------------------------------------------------------------------
(* The dashboard on a dataset: the specification Spec.                     *)

Jo == [name |-> <<"J","o">>, role |-> <<"V","P">>]
Ann == [name |-> <<"A","n","n">>, role |-> <<"C","T","O">>,
        email |-> <<"a","n","n","@","b",".","c","o">>]
Cy == [name |-> <<"C","y">>, role |-> <<"C","E","O">>, email |-> <<"n","o","n","e">>,
       linkedin_url |-> <<"l","n",".","c","y">>]
Di == [name |-> <<"D","i">>, role |-> <<"C","F","O">>]

\* No decision_makers property at all, and a head of data.
Zeta == [company |-> <<"Z","e","t","a">>, url |-> <<"z",".","i","o">>, head_of_data |-> Ann]
Alpha == [company |-> <<"A","l","p","h","a">>, decision_makers |-> <<Jo>>]
\* Four decision makers, one of them listed again as the head of data.
Delta == [company |-> <<"D","e","l","t","a">>,
          decision_makers |-> <<Jo, Ann, Cy, Di>>, head_of_data |-> Ann]

AppLeads == {Zeta, Alpha, Delta}

\* What the user types into the search input.
AppQueries == {<<>>, <<" ","C","T","O"," ">>, <<"A">>}

Init == \E rows \in Datasets(AppLeads, MaxLeads) : Mounted(rows)

Next ==
    \/ \E text \in AppQueries : OnChangeQuery(text)
    \/ \E option \in selectOptions : OnChangeMinDecisionMakers(option)
    \/ OnToggleHeadOfData
    \/ \E key \in expandableKeys : OnToggleExpanded(key)
    \/ OnReset
    \/ OnExportFiltered
    \/ OnExportAll

Spec == Init /\ [][Next]_vars

-----------------------------------------------------------------------------
(* Calls of the pure helpers on their own, with the result kept in `ret`.  *)

\* A contact object; `links` and `emails` hold the optional property or nothing.
ContactOf(name, role, links, emails) ==
    [k \in {"name", "role"} \cup (IF links = <<>> THEN {} ELSE {"linkedin_url"})
                            \cup (IF emails = <<>> THEN {} ELSE {"email"}) |->
        CASE k = "name" -> name
          [] k = "role" -> role
          [] k = "linkedin_url" -> links[1]
          [] OTHER -> emails[1]]

\* A lead object; `heads` holds the optional head_of_data or nothing.
LeadOf(company, decisionMakers, heads) ==
    [k \in {"company", "decision_makers"} \cup (IF heads = <<>> THEN {} ELSE {"head_of_data"}) |->
        CASE k = "company" -> company
          [] k = "decision_makers" -> decisionMakers
          [] OTHER -> heads[1]]

CallEscapeCsv(value) ==
    /\ ret' = [fn |-> "escapeCsv", arg |-> value, val |-> escapeCsv(value)]
    /\ UNCHANGED appVars

CallGetDisplayDecisionMakers(lead) ==
    /\ ret' = [fn |-> "getDisplayDecisionMakers", arg |-> lead,
               val |-> getDisplayDecisionMakers(lead)]
    /\ UNCHANGED appVars

\* The list returned by the last call becomes the decision_makers of a new lead
\* (with the same head_of_data, or with none), which is normalized again.
CallNormalizeAgain(keepHead) ==
    /\ ret.fn = "getDisplayDecisionMakers"
    /\ LET again == LeadOf(ret.arg.company, ret.val,
                           IF keepHead /\ "head_of_data" \in DOMAIN ret.arg
                           THEN <<ret.arg.head_of_data>> ELSE <<>>)
       IN  ret' = [fn |-> "normalizeAgain", arg |-> again, first |-> ret.val,
                   val |-> getDisplayDecisionMakers(again)]
    /\ UNCHANGED appVars

CallBuildCsv(rows) ==
    /\ ret' = [fn |-> "buildCsv", arg |-> rows, val |-> buildCsv(rows)]
    /\ UNCHANGED appVars

CallGetSearchHaystack(lead) ==
    /\ ret' = [fn |-> "getSearchHaystack", arg |-> lead, val |-> getSearchHaystack(lead)]
    /\ UNCHANGED appVars

-----------------------------------------------------------------------------
(* getDisplayDecisionMakers on one lead: the specification SpecNormalize.  *)

\* Names and roles with and without the '-' that the key is glued with.
DashNames == {<<"a">>, <<"a","-","b">>}
DashRoles == {<<"c">>, <<"b","-","c">>}
DashLinks == {<<>>, << <<>> >>, << <<"u">> >>}

NormalizeContacts ==
    {ContactOf(n, r, l, <<>>) : n \in DashNames, r \in DashRoles, l \in DashLinks}
        \cup {ContactOf(<<"a">>, <<"c">>, <<>>, << <<"e","@","x">> >>)}

NormalizeLeads ==
    {LeadOf(<<"c","o">>, dms, h) :
        dms \in SeqUpTo(NormalizeContacts, MaxDecisionMakers),
        h \in SeqUpTo(NormalizeContacts, 1)}
    \cup {[company |-> <<"c","o">>, head_of_data |-> h] : h \in NormalizeContacts}

InitNormalize == \E lead \in NormalizeLeads : Mounted(<<lead>>)

NextNormalize ==
    \/ CallGetDisplayDecisionMakers(leads[1])
    \/ \E keepHead \in BOOLEAN : CallNormalizeAgain(keepHead)

SpecNormalize == InitNormalize /\ [][NextNormalize]_vars

-----------------------------------------------------------------------------
(* escapeCsv on one value: the specification SpecEscapeCsv.                *)

CsvAlphabet == {"a", " ", ",", "\"", "\n"}

\* The spec's example, company = 'Acme, "Inc"'.
AcmeInc == <<"A","c","m","e",","," ","\"","I","n","c","\"">>

CsvValues ==
    {JsNull, JsUndefined, JsString(AcmeInc)}
        \cup {JsString(chars) : chars \in SeqUpTo(CsvAlphabet, MaxLen)}

InitEscapeCsv == Mounted(<<>>)

NextEscapeCsv == \E value \in CsvValues : CallEscapeCsv(value)

SpecEscapeCsv == InitEscapeCsv /\ [][NextEscapeCsv]_vars

-----------------------------------------------------------------------------
(* buildCsv on a list of leads: the specification SpecCsv.                 *)

\* A contact whose role holds a quote and a line break.
Quoted == [name |-> <<"Q">>, role |-> <<"\"","V","P","\"","\n","I","T">>,
           email |-> <<"q","@","x">>]

CsvCompanies == {AcmeInc, <<"N","e","w","\n","C","o">>, <<"Z","e","t","a">>}

CsvLeads ==
    {LeadOf(company, dms, h) :
        company \in CsvCompanies, dms \in {<<>>, <<Jo, Quoted>>}, h \in {<<>>, <<Ann>>}}

InitCsv == \E rows \in Datasets(CsvLeads, MaxLeads) : Mounted(rows)

NextCsv == CallBuildCsv(leads)

SpecCsv == InitCsv /\ [][NextCsv]_vars

-----------------------------------------------------------------------------
(* Emails in the haystack and in the CSV: the specification SpecEmail.     *)

EmailTexts == {<<>>, <<"x">>, <<"e","@","x">>, <<"F","@","y">>}

EmailContacts ==
    {ContactOf(name, <<"r">>, <<>>, emails) :
        name \in {<<"a">>, <<"b">>},
        emails \in {<<>>} \cup {<<e>> : e \in EmailTexts}}

EmailLeads ==
    {LeadOf(<<"c","o">>, dms, h) :
        dms \in SeqUpTo(EmailContacts, MaxDecisionMakers),
        h \in SeqUpTo(EmailContacts, 1)}

InitEmail == \E lead \in EmailLeads : Mounted(<<lead>>)

NextEmail ==
    \/ CallGetSearchHaystack(leads[1])
    \/ CallBuildCsv(leads)

SpecEmail == InitEmail /\ [][NextEmail]_vars

-----------------------------------------------------------------------------
(* Searching a dataset of one lead: the specification SpecSearch.          *)

SearchContacts ==
    {ContactOf(<<"C">>, <<"d">>, <<>>, <<>>),
     ContactOf(<<"e">>, <<"F"," ","g">>, <<>>, << <<"H","@","i">> >>)}

SearchLeads ==
    {LeadOf(company, dms, h) :
        company \in {<<"A"," ","b">>, <<"Z">>},
        dms \in SeqUpTo(SearchContacts, MaxDecisionMakers),
        h \in SeqUpTo(SearchContacts, 1)}

\* Every substring of text, the empty one included.
Substrings(text) ==
    {SubSeq(text, i, j) : i \in 1..(Len(text) + 1), j \in 0..Len(text)}

InitSearch == \E lead \in SearchLeads : Mounted(<<lead>>)

\* The user types (or pastes) a piece of the lead's haystack into the empty
\* search input, and resets.
NextSearch ==
    \/ \E text \in Substrings(getSearchHaystack(leads[1])) :
           query = <<>> /\ OnChangeQuery(text)
    \/ OnReset

SpecSearch == InitSearch /\ [][NextSearch]_vars

-----------------------------------------------------------------------------
(* Copying emails to the clipboard: the specification SpecCopy.            *)

Bea == [name |-> <<"B","e","a">>, role |-> <<"C","D","O">>,
        email |-> <<"b","e","a","@","b",".","c","o">>]

\* Contacts with a valid email (Ann, Bea), an invalid one (Cy) and none (Jo).
CopyLeads ==
    {LeadOf(<<"c","o">>, dms, h) :
        dms \in {<<Jo>>, <<Ann, Cy>>, <<Ann, Bea>>}, h \in {<<>>, <<Bea>>}}

InitCopy == \E lead \in CopyLeads : Mounted(<<lead>>)

NextCopy ==
    \/ \E email \in copyButtons : OnCopyEmailWriteText(email)
    \/ \E i \in DOMAIN pendingWrites : WriteTextResolved(i)
    \/ \E i \in DOMAIN pendingWrites : WriteTextRejected(i)
    \/ \E email \in copyButtons, thrown \in BOOLEAN : OnCopyEmailExecCommand(email, thrown)
    \/ TimerFires

SpecCopy == InitCopy /\ [][NextCopy]_vars

-----------------------------------------------------------------------------
(* Helpers of the properties below.                                        *)

RECURSIVE PickFrom(_, _, _)
\* The elements of seq at the indices >= i that are in keep, in order.
PickFrom(seq, keep, i) ==
    IF i > Len(seq) THEN <<>>
    ELSE (IF i \in keep THEN <<seq[i]>> ELSE <<>>) \o PickFrom(seq, keep, i + 1)

RECURSIVE IsSubsequence(_, _)
\* a can be had from b by deleting elements.
IsSubsequence(a, b) ==
    IF a = <<>> THEN TRUE
    ELSE IF b = <<>> THEN FALSE
    ELSE IF Head(a) = Head(b) THEN IsSubsequence(Tail(a), Tail(b))
    ELSE IsSubsequence(a, Tail(b))

\* The contacts of a lead in source order: decision_makers, then head_of_data.
SourceContacts(lead) ==
    LET dms == IF "decision_makers" \in DOMAIN lead THEN lead.decision_makers ELSE <<>>
    IN  IF "head_of_data" \in DOMAIN lead THEN Append(dms, lead.head_of_data) ELSE dms

\* The triple (name, role, linkedin_url-or-empty-string) of a contact.
ContactTriple(c) ==
    <<c.name, c.role, IF "linkedin_url" \in DOMAIN c THEN c.linkedin_url ELSE <<>> >>

-----------------------------------------------------------------------------
(* C1: getDisplayDecisionMakers returns decision_makers followed by        *)
(* head_of_data, keeping an entry if and only if no earlier entry has the  *)
(* same triple (name, role, linkedin_url-or-empty-string), first           *)
(* occurrence kept, source order preserved.                                *)
C1_DedupByTriple ==
    ret.fn = "getDisplayDecisionMakers" =>
        LET all == SourceContacts(ret.arg)
            firsts == {i \in DOMAIN all :
                          \A j \in 1..(i - 1) : ContactTriple(all[j]) # ContactTriple(all[i])}
        IN  ret.val = PickFrom(all, firsts, 1)

-----------------------------------------------------------------------------
(* C8: normalizing the normalized list again, as the decision_makers of a  *)
(* new lead with the same head_of_data or with none, returns the same      *)
(* sequence of contacts.                                                   *)
C8_NormalizeIdempotent ==
    ret.fn = "normalizeAgain" => ret.val = ret.first

\* A second pass, with the head of data kept, over a list the first pass shortened.
C8_Witness ==
    /\ ret.fn = "normalizeAgain"
    /\ "head_of_data" \in DOMAIN ret.arg
    /\ Len(ret.first) >= 2
    /\ Len(ret.first) < Len(SourceContacts(leads[1]))
    /\ ret.val = ret.first

-----------------------------------------------------------------------------
(* Reading CSV text back, for the properties of escapeCsv and buildCsv.    *)

Quote == "\""

RECURSIVE QuotesPaired(_)
\* Every double quote of text is one of a pair of adjacent double quotes.
QuotesPaired(text) ==
    IF text = <<>> THEN TRUE
    ELSE IF Head(text) # Quote THEN QuotesPaired(Tail(text))
    ELSE Len(text) >= 2 /\ text[2] = Quote /\ QuotesPaired(SubSeq(text, 3, Len(text)))

RECURSIVE Undoubled(_)
\* text with every pair of adjacent double quotes read as one double quote.
Undoubled(text) ==
    IF text = <<>> THEN <<>>
    ELSE IF Head(text) = Quote /\ Len(text) >= 2
         THEN <<Quote>> \o Undoubled(SubSeq(text, 3, Len(text)))
         ELSE <<Head(text)>> \o Undoubled(Tail(text))

\* out is chars wrapped in double quotes with every internal double quote doubled.
IsQuotedFormOf(out, chars) ==
    /\ Len(out) >= 2
    /\ out[1] = Quote
    /\ out[Len(out)] = Quote
    /\ QuotesPaired(SubSeq(out, 2, Len(out) - 1))
    /\ Undoubled(SubSeq(out, 2, Len(out) - 1)) = chars

\* "Acme, ""Inc""" with its wrapping quotes.
AcmeIncEscaped ==
    <<"\"","A","c","m","e",","," ","\"","\"","I","n","c","\"","\"","\"">>

-----------------------------------------------------------------------------
(* C3: escapeCsv wraps a field in double quotes and doubles every internal *)
(* double quote if and only if the field contains a comma, a double quote  *)
(* or a newline; null and absent values give the empty string; every other *)
(* value is emitted unchanged; 'Acme, "Inc"' gives "Acme, ""Inc""".        *)
C3_EscapeCsv ==
    ret.fn = "escapeCsv" =>
        IF ret.arg.type # "string" THEN ret.val = <<>>
        ELSE LET chars == ret.arg.value
                 special == \E i \in DOMAIN chars : chars[i] \in {",", Quote, "\n"}
             IN  /\ special <=> IsQuotedFormOf(ret.val, chars)
                 /\ ~special => ret.val = chars
                 /\ chars = AcmeInc => ret.val = AcmeIncEscaped

\* The spec's example has been escaped.
C3_Witness ==
    /\ ret.fn = "escapeCsv"
    /\ ret.arg = JsString(AcmeInc)
    /\ ret.val = AcmeIncEscaped

-----------------------------------------------------------------------------
(* Counting the lines and the records of a CSV text.                       *)

\* The header line, as the spec gives the ten columns.
HeaderText ==
    <<"c","o","m","p","a","n","y",",","u","r","l",",",
      "d","e","c","i","s","i","o","n","_","m","a","k","e","r","s",",",
      "d","e","c","i","s","i","o","n","_","m","a","k","e","r","_","r","o","l","e","s",",",
      "d","e","c","i","s","i","o","n","_","m","a","k","e","r","_",
          "l","i","n","k","e","d","i","n","s",",",
      "d","e","c","i","s","i","o","n","_","m","a","k","e","r","_","e","m","a","i","l","s",",",
      "h","e","a","d","_","o","f","_","d","a","t","a","_","n","a","m","e",",",
      "h","e","a","d","_","o","f","_","d","a","t","a","_","r","o","l","e",",",
      "h","e","a","d","_","o","f","_","d","a","t","a","_","l","i","n","k","e","d","i","n",",",
      "h","e","a","d","_","o","f","_","d","a","t","a","_","e","m","a","i","l">>

\* The number of parts of text.split('\n').
SplitCount(text) == Cardinality({i \in DOMAIN text : text[i] = "\n"}) + 1

\* The newline characters of text that lie outside double-quoted fields: those
\* with an even number of double quotes before them.
RecordBreaks(text) ==
    {i \in DOMAIN text :
        /\ text[i] = "\n"
        /\ Cardinality({j \in 1..(i - 1) : text[j] = Quote}) % 2 = 0}

\* Some value that buildCsv emits for the lead holds a newline character.
HasNewlineField(lead) ==
    \E i \in DOMAIN csvFields(lead) :
        /\ csvFields(lead)[i].type = "string"
        /\ \E k \in DOMAIN csvFields(lead)[i].value : csvFields(lead)[i].value[k] = "\n"

(* C4 as claimed: buildCsv returns a text whose first line is the header   *)
(* and which, split on the newline character, has exactly leads.length + 1 *)
(* parts; for the empty list it returns exactly the header line.           *)
C4_SplitCount ==
    ret.fn = "buildCsv" =>
        /\ split(ret.val, "\n")[1] = HeaderText
        /\ SplitCount(ret.val) = Len(ret.arg) + 1
        /\ ret.arg = <<>> => ret.val = HeaderText

(* C4 as amended: the first line is the header; the text has exactly       *)
(* leads.length + 1 records, that is leads.length newline characters       *)
(* outside double-quoted fields; split on the newline character it has     *)
(* leads.length + 1 parts exactly when no emitted field holds a newline    *)
(* character, and more otherwise; the empty list gives the header line.    *)
C4_RecordCount ==
    ret.fn = "buildCsv" =>
        /\ split(ret.val, "\n")[1] = HeaderText
        /\ Cardinality(RecordBreaks(ret.val)) = Len(ret.arg)
        /\ IF \E i \in DOMAIN ret.arg : HasNewlineField(ret.arg[i])
           THEN SplitCount(ret.val) > Len(ret.arg) + 1
           ELSE SplitCount(ret.val) = Len(ret.arg) + 1
        /\ ret.arg = <<>> => ret.val = HeaderText

\* Two leads, a newline inside a field, and more than three parts.
C4_Witness ==
    /\ ret.fn = "buildCsv"
    /\ Len(ret.arg) = 2
    /\ HasNewlineField(ret.arg[1])
    /\ ~HasNewlineField(ret.arg[2])
    /\ SplitCount(ret.val) > 3
    /\ Cardinality(RecordBreaks(ret.val)) = 2

-----------------------------------------------------------------------------
(* Emails read back from the haystack and from the CSV text.  The leads of *)
(* SpecEmail have no space, comma, quote, bar or newline in any property,  *)
(* so the outputs split back into their parts.                             *)

\* The contact's email is a string that contains '@'.
HasAtEmail(c) == "email" \in DOMAIN c /\ \E i \in DOMAIN c.email : c.email[i] = "@"

\* The contact carries a non-empty email value without '@'.
HasBadEmail(c) == "email" \in DOMAIN c /\ c.email # <<>> /\ ~HasAtEmail(c)

\* The contact at index i is not dropped by getDisplayDecisionMakers.
IsKept(all, i) == \A j \in 1..(i - 1) : dedupKey(all[j]) # dedupKey(all[i])

\* The space-separated words of a haystack.
Words(haystack) == {split(haystack, " ")[i] : i \in DOMAIN split(haystack, " ")}

\* Column n of the row of the only lead of a CSV text.
Column(csv, n) == split(split(csv, "\n")[2], ",")[n]

\* The slots of a ' | '-joined column.
Slots(column) ==
    IF column = <<>> THEN <<>>
    ELSE [i \in DOMAIN split(column, "|") |-> trim(split(column, "|")[i])]

SlotSet(column) == {Slots(column)[i] : i \in DOMAIN Slots(column)}

\* What the claim says of a contact without a valid email, on either output.
BadEmailLeftOut(c) ==
    /\ ret.fn = "getSearchHaystack" /\ HasBadEmail(c) => toLowerCase(c.email) \notin Words(ret.val)
    /\ ret.fn = "buildCsv" =>
           /\ HasBadEmail(c) => c.email \notin SlotSet(Column(ret.val, 6)) \cup {Column(ret.val, 10)}
           /\ <<>> \notin SlotSet(Column(ret.val, 6))

\* What the claim says of a contact with a valid email, on either output.
GoodEmailShown(c, isHead) ==
    /\ ret.fn = "getSearchHaystack" => toLowerCase(c.email) \in Words(ret.val)
    /\ ret.fn = "buildCsv" =>
           c.email \in (IF isHead THEN {Column(ret.val, 10)} ELSE SlotSet(Column(ret.val, 6)))

\* The decision makers of the lead and whether each index is the head of data.
IsHeadIndex(lead, i) == "head_of_data" \in DOMAIN lead /\ i = Len(SourceContacts(lead))

(* C5 as claimed: for every contact of a lead (a decision maker or the     *)
(* head of data), an email without '@' is contributed neither to the       *)
(* haystack nor to the email columns of the CSV and leaves no empty slot;  *)
(* an email with '@' appears in the haystack (lowercased) and in an email  *)
(* column of the lead's CSV row.                                           *)
C5_EveryValidEmailShown ==
    ret.fn \in {"getSearchHaystack", "buildCsv"} =>
        LET lead == leads[1]
            all == SourceContacts(lead)
        IN  \A i \in DOMAIN all :
                /\ ~HasAtEmail(all[i]) => BadEmailLeftOut(all[i])
                /\ HasAtEmail(all[i]) => GoodEmailShown(all[i], IsHeadIndex(lead, i))

(* C5 as amended: the same, but an email with '@' is promised to appear    *)
(* only for the head of data and for a decision maker that                 *)
(* getDisplayDecisionMakers keeps: a decision maker dropped as a duplicate *)
(* of an earlier contact contributes its email nowhere.  The               *)
(* decision_maker_emails column is exactly the valid emails of the kept    *)
(* contacts, in order.                                                     *)
C5_KeptValidEmailShown ==
    ret.fn \in {"getSearchHaystack", "buildCsv"} =>
        LET lead == leads[1]
            all == SourceContacts(lead)
        IN  /\ \A i \in DOMAIN all :
                /\ ~HasAtEmail(all[i]) => BadEmailLeftOut(all[i])
                /\ HasAtEmail(all[i]) /\ (IsHeadIndex(lead, i) \/ IsKept(all, i)) =>
                       GoodEmailShown(all[i], IsHeadIndex(lead, i))
                /\ HasAtEmail(all[i]) /\ IsKept(all, i) => GoodEmailShown(all[i], FALSE)
            /\ ret.fn = "buildCsv" =>
                   LET shown == PickFrom(all, {i \in DOMAIN all :
                                                  IsKept(all, i) /\ HasAtEmail(all[i])}, 1)
                   IN  Slots(Column(ret.val, 6)) = [i \in DOMAIN shown |-> shown[i].email]

\* A CSV row of a lead with a kept valid email, a kept invalid one, and a
\* duplicate whose valid email is lost.
C5_Witness ==
    /\ ret.fn = "buildCsv"
    /\ LET all == SourceContacts(leads[1])
       IN  /\ Len(all) = 3
           /\ IsKept(all, 1) /\ HasBadEmail(all[1])
           /\ ~IsKept(all, 2) /\ HasAtEmail(all[2])
           /\ IsKept(all, 3) /\ HasAtEmail(all[3])
           /\ Slots(Column(ret.val, 6)) = <<all[3].email>>

-----------------------------------------------------------------------------
(* C6: for a lead L and any substring s of getSearchHaystack(L), also one  *)
(* that begins or ends with spaces and the empty one, filtering [L] with   *)
(* searchText = s, minContacts = 0 and requireHeadOfData = false returns   *)
(* [L].                                                                    *)
C6_SearchContainment ==
    /\ Len(leads) = 1
    /\ query \in Substrings(getSearchHaystack(leads[1]))
    /\ numberOrZero(minDecisionMakers) = 0
    /\ ~hasHeadOfData
    => filteredLeads = leads

\* A piece of the haystack with a space at each end and a word between.
C6_Witness ==
    /\ Len(query) >= 3
    /\ query[1] = " "
    /\ query[Len(query)] = " "
    /\ trim(query) # <<>>
    /\ query \in Substrings(getSearchHaystack(leads[1]))
    /\ filteredLeads = leads

-----------------------------------------------------------------------------
(* The filter, as the spec states its three predicates.                    *)

\* The number a threshold option stands for.
Threshold(option) == CHOOSE n \in 0..9 : Digits[n + 1] = option[1]

\* The raw decision_makers length, 0 when absent.
RawCount(lead) == IF "decision_makers" \in DOMAIN lead THEN Len(lead.decision_makers) ELSE 0

\* needle occurs in text at some offset.
OccursIn(needle, text) ==
    \E from \in 1..(Len(text) + 1) :
        /\ from + Len(needle) - 1 <= Len(text)
        /\ SubSeq(text, from, from + Len(needle) - 1) = needle

Satisfies(lead, searchText, minContacts, requireHeadOfData) ==
    /\ toLowerCase(trim(searchText)) = <<>>
           \/ OccursIn(toLowerCase(trim(searchText)), getSearchHaystack(lead))
    /\ RawCount(lead) >= minContacts
    /\ requireHeadOfData => "head_of_data" \in DOMAIN lead

(* C2: the filtered list is exactly the subsequence of the dataset, in     *)
(* dataset order, of the leads that satisfy all three predicates; a lead   *)
(* with no decision_makers and a head_of_data is excluded by               *)
(* minContacts = 1 although its normalized contact list has one entry.     *)
C2_FilterExact ==
    /\ filteredLeads =
           PickFrom(leads, {i \in DOMAIN leads :
                               Satisfies(leads[i], query, Threshold(minDecisionMakers),
                                         hasHeadOfData)}, 1)
    /\ \A i \in DOMAIN leads :
           /\ RawCount(leads[i]) = 0
           /\ "head_of_data" \in DOMAIN leads[i]
           /\ Threshold(minDecisionMakers) >= 1
           => /\ \A k \in DOMAIN filteredLeads : filteredLeads[k] # leads[i]
              /\ Len(getDisplayDecisionMakers(leads[i])) = 1

\* Zeta has only a head of data; the threshold 1 drops it and keeps another lead.
C2_Witness ==
    /\ minDecisionMakers = <<"1">>
    /\ \E i \in DOMAIN leads : leads[i] = Zeta
    /\ Len(filteredLeads) = 1
    /\ filteredLeads[1] # Zeta

-----------------------------------------------------------------------------
-----------------------------------------------------------------------------
(* C9: with the search text and the head-of-data flag unchanged, selecting *)
(* a threshold m2 >= m1 gives a filtered result that is a subsequence of   *)
(* the result for m1, so its size never increases.                         *)
C9_Monotone ==
    [][ /\ query' = query
        /\ hasHeadOfData' = hasHeadOfData
        /\ Threshold(minDecisionMakers') >= Threshold(minDecisionMakers)
        => /\ IsSubsequence(filteredLeads', filteredLeads)
           /\ Len(filteredLeads') <= Len(filteredLeads) ]_vars

\* The threshold 2 has been selected and has dropped one of two leads.
C9_Witness ==
    /\ minDecisionMakers = <<"2">>
    /\ query = <<>>
    /\ ~hasHeadOfData
    /\ Len(leads) = 2
    /\ Len(filteredLeads) = 1

-----------------------------------------------------------------------------
(* C10: in every reachable state the memoized filteredLeads equals the     *)
(* filter applied to the full dataset with the current query,              *)
(* minDecisionMakers and hasHeadOfData; that list is what 'Export filtered *)
(* CSV' serializes; after Reset it equals the full dataset.                *)
C10_Fresh ==
    filteredLeads = computeFilteredLeads(leads, query, minDecisionMakers, hasHeadOfData)

C10_NoStaleness ==
    /\ []C10_Fresh
    /\ [][OnReset => filteredLeads' = leads]_vars
    /\ [][OnExportFiltered =>
            download'.csv = buildCsv(computeFilteredLeads(leads, query, minDecisionMakers,
                                                          hasHeadOfData))]_vars

\* A filtered export made while the flag and a search text hide part of the dataset.
C10_Witness ==
    /\ hasHeadOfData
    /\ query # <<>>
    /\ minDecisionMakers # <<"0">>
    /\ expandedLeads # <<>>
    /\ filteredLeads # leads
    /\ filteredLeads # <<>>
    /\ download.label = "leads-filtered"
    /\ download.csv = buildCsv(filteredLeads)

-----------------------------------------------------------------------------
\* A call of onCopyEmail reaches lines 194-195 in this step: it sets
\* copiedEmail and schedules its timer.
CopySucceeds == Len(timers') = Len(timers) + 1

\* A timer callback runs in this step.
TimerRuns == timers # <<>> /\ timers' = Tail(timers)

\* While copiedEmail is set, the call that set it is the last one that
\* scheduled a timer: the callback that runs is that call's own exactly when
\* it is the only one waiting.
OwnTimerRuns == TimerRuns /\ Len(timers) = 1
EarlierTimerRuns == TimerRuns /\ Len(timers) > 1

(* C11: after a successful onCopyEmail(e), copiedEmail stays equal to e     *)
(* until the timer scheduled by that same call fires or a later copy       *)
(* succeeds; under any interleaving of copy calls and timer callbacks, a   *)
(* timer scheduled by an earlier copy never clears the 'Copied' indicator  *)
(* set by a later copy.                                                    *)
C11_CopiedUntilOwnTimer ==
    /\ [][(copiedEmail # <<>> /\ copiedEmail' # copiedEmail)
            => (CopySucceeds \/ OwnTimerRuns)]_vars
    /\ [][(copiedEmail # <<>> /\ EarlierTimerRuns) => copiedEmail' = copiedEmail]_vars

=============================================================================
